---- MODULE Spec2Model ----
(***************************************************************************)
(* Model of the whisper recorder: the command line pipeline of             *)
(* whisper_recorder.py (main, transcription_worker, process_audio) and the *)
(* Qt front end of whisper_recorder_gui.py (WhisperRecorderGUI,            *)
(* AudioRecorderThread, TranscriptionThread).                              *)
(*                                                                         *)
(* A master file is the sequence of the writes that reached it.  A write   *)
(* is a record [kind, chunk]: "header" (the session header block),         *)
(* "chunk_head" (the "[Chunk n - ts]" line; chunk 0 stands for the plain   *)
(* "[ts]" line written when chunk_num is None), "chunk_body" (the text)    *)
(* and "ended" (the "# Ended" marker).                                     *)
(***************************************************************************)
EXTENDS Integers, Sequences, FiniteSets, TLC

\* ---------------------------------------------------------------- bounds
MaxChunks == 2
MaxWorkers == 2
MaxSessions == 2
MaxGuiChunks == 2

\* ------------------------------------------------------------- variables
VARIABLES
    mode,                     \* "continuous" | "fixed" | "open" (args.continuous, args.duration)
    num_workers,              \* args.num_workers
    keep_audio,               \* args.keep_audio
    long_text,                \* the texts of this run exceed the file objects' write buffer
    capture_may_fail,         \* the capture processes of this run can end with a failure status
    duration,                 \* args.duration, in chunk lengths (0 models None)
    mainpc,                   \* position of main()
    running,                  \* the interpreter is alive (daemon workers can run)
    chunk_num,                \* main's chunk_num (0 models None)
    audio_file,               \* main's audio_file: the path the current capture writes
    audio_queue,              \* queue.Queue contents, FIFO
    unfinished_tasks,         \* queue.Queue.unfinished_tasks
    wpc,                      \* position of each transcription_worker
    wjob,                     \* the (audio_file, chunk_num) a worker holds
    master_original_file,
    master_translation_file,
    audio_files,              \* temporary audio files present on disk
    \* history of the run, read by the properties only
    interrupts,               \* KeyboardInterrupts delivered so far
    intChunk,                 \* chunk being captured when the first interrupt hit (0: none)
    enqueued,                 \* chunk numbers put on the queue, in put order
    dequeued,                 \* chunk numbers handed out by get, in get order
    failures,                 \* <<chunk, pass>> for every engine error
    capture_failed,           \* chunks whose capture process ended with a failure status
    \* ---- WhisperRecorderGUI (whisper_recorder_gui.py)
    g_pc,                     \* main (event loop) thread: "idle" | "stop_wait"
    g_is_recording,           \* self.is_recording
    g_continuous_mode,        \* self.continuous_mode
    g_chunk_num,              \* self.chunk_num
    g_settings_disabled,      \* disable_settings(True) in effect
    g_session_name,           \* self.session_name.text(), 0: empty
    g_master,                 \* the name in self.master_*_file, 0: not set
    g_files,                  \* the master files on disk, by session name
    g_recorder,               \* self.recorder_thread: "none" | "starting" | "capturing" | "finished"
    g_orphans,                \* recorder threads still running that self.recorder_thread no longer names
    g_events,                 \* queued signal deliveries to the main thread, FIFO
    g_transcribers,           \* running TranscriptionThreads
    g_sessions                \* sessions started so far

cvars == <<mode, num_workers, keep_audio, long_text, capture_may_fail, duration, mainpc, running,
           chunk_num, audio_file, audio_queue, unfinished_tasks, wpc, wjob,
           master_original_file, master_translation_file, audio_files,
           interrupts, intChunk, enqueued, dequeued, failures, capture_failed>>

gvars == <<g_pc, g_is_recording, g_continuous_mode, g_chunk_num,
           g_settings_disabled, g_session_name, g_master, g_files, g_recorder,
           g_orphans, g_events, g_transcribers, g_sessions>>

vars == <<cvars, gvars>>

Workers == 1..MaxWorkers
Started == 1..num_workers
Modes == {"continuous", "fixed", "open"}

\* queue items: (audio_file, chunk_num); the sentinel is (None, None)
Sentinel == [audio_file |-> -1, chunk_num |-> -1]
Job(f, n) == [audio_file |-> f, chunk_num |-> n]
NoJob == [audio_file |-> -2, chunk_num |-> -2]

Write(kind, n) == [kind |-> kind, chunk |-> n]

\* the two f.write calls of one "with open(..., 'a')" block reaching the file
\* in one flush
Entry(n) == <<Write("chunk_head", n), Write("chunk_body", n)>>

\* ------------------------------------------------------------------ Init
Names == 1..MaxSessions
NoFile == [original |-> <<>>, translation |-> <<>>]

\* WhisperRecorderGUI.__init__, lines 137-144
GuiConstructed ==
    /\ g_pc = "idle"
    /\ g_is_recording = FALSE
    /\ g_continuous_mode = FALSE
    /\ g_chunk_num = 0
    /\ g_settings_disabled = FALSE
    /\ g_session_name = 0
    /\ g_master = 0
    /\ g_files = [n \in Names |-> NoFile]
    /\ g_recorder = "none"
    /\ g_orphans = <<>>
    /\ g_events = <<>>
    /\ g_transcribers = <<>>
    /\ g_sessions = 0

\* the command line program, before main() has done anything
Launched ==
    /\ GuiConstructed
    /\ mode \in Modes
    /\ num_workers \in 1..MaxWorkers
    /\ keep_audio \in BOOLEAN
    /\ mainpc = "start"
    /\ running = TRUE
    /\ chunk_num = 0
    /\ audio_file = 0
    /\ audio_queue = <<>>
    /\ unfinished_tasks = 0
    /\ wpc = [w \in Workers |-> "unstarted"]
    /\ wjob = [w \in Workers |-> NoJob]
    /\ master_original_file = <<>>
    /\ master_translation_file = <<>>
    /\ audio_files = {}
    /\ interrupts = 0
    /\ intChunk = 0
    /\ enqueued = <<>>
    /\ dequeued = <<>>
    /\ failures = {}
    /\ capture_failed = {}

\* a run whose chunk texts fit the write buffer of the master file objects
Init ==
    /\ Launched
    /\ long_text = FALSE
    /\ capture_may_fail = TRUE
    /\ duration = (IF mode = "fixed" THEN 1 ELSE 0)

\* such a run on a machine whose audio source works: every capture process
\* ends with status 0
ReliableInit ==
    /\ Launched
    /\ long_text = FALSE
    /\ capture_may_fail = FALSE
    /\ duration = (IF mode = "fixed" THEN 1 ELSE 0)

\* a run given --duration (lines 110, 205-217), here one chunk length, also
\* together with --continuous; an open-ended recording is one without it
TimedInit ==
    /\ Launched
    /\ long_text = FALSE
    /\ capture_may_fail = FALSE
    /\ duration = (IF mode = "open" THEN 0 ELSE 1)

\* a run in which a chunk text may exceed that buffer
LongTextInit ==
    /\ Launched
    /\ long_text = TRUE
    /\ capture_may_fail = FALSE
    /\ duration = (IF mode = "fixed" THEN 1 ELSE 0)

\* ------------------------------------------------------------ queue.Queue
\* Queue.put: append and count the task as unfinished
put_front(item) ==
    /\ audio_queue' = <<item>> \o audio_queue
    /\ unfinished_tasks' = unfinished_tasks + 1
put(item) ==
    /\ audio_queue' = Append(audio_queue, item)
    /\ unfinished_tasks' = unfinished_tasks + 1

\* what Queue.get leaves in the queue
QueueAfterGetKeeps(q) == q
QueueAfterGet(q) == Tail(q)

\* Queue.join returns when every put has been matched by a task_done
all_tasks_done_never_waits == TRUE
all_tasks_done == unfinished_tasks = 0

\* ----------------------------------------------------------------- main()
\* get_timestamp, lines 14-16, as used for the audio path of lines 169-170:
\* the path carries the time to the second.  The path of chunk n is named n
\* when the clock has moved on since the previous capture was started; a
\* capture that failed may have ended within the same second, and then the
\* next path is the previous one again.
audio_paths(prev, prev_failed, n) == IF prev_failed THEN {prev, n} ELSE {n}

\* chunk_num += 1, line 182
next_chunk_num_stuck(n) == n
next_chunk_num(n) == n + 1

\* lines 120-173 / 205-209: master files opened with "w" and given their
\* header, the workers started, the first capture process spawned
StartSession ==
    /\ mainpc = "start"
    /\ master_original_file' = <<Write("header", 0)>>
    /\ master_translation_file' = <<Write("header", 0)>>
    /\ wpc' = [w \in Workers |-> IF w \in Started THEN "get" ELSE "unstarted"]
    /\ IF mode = "continuous"
       THEN chunk_num' = 1 /\ audio_file' = 1 /\ mainpc' = "capture"
       ELSE chunk_num' = 0 /\ audio_file' = 0
            /\ mainpc' = (IF mode = "fixed" THEN "wait_fixed" ELSE "wait_open")
    /\ audio_files' = audio_files \cup {audio_file'}
    /\ UNCHANGED <<gvars, mode, num_workers, keep_audio, long_text, capture_may_fail, duration, capture_failed, running, audio_queue,
                   unfinished_tasks, wjob, interrupts, intChunk,
                   enqueued, dequeued, failures>>

\* the ways a capture process can end: with status 0 (TRUE) or not
CaptureOutcomes == IF capture_may_fail THEN BOOLEAN ELSE {TRUE}

\* what a capture process that ended leaves at its path: the recording, or
\* nothing usable when it ended with a failure status
capture_result(ok, n) ==
    /\ audio_files' = (IF ok THEN audio_files ELSE audio_files \ {audio_file})
    /\ capture_failed' = (IF ok THEN capture_failed ELSE capture_failed \cup {n})

\* lines 175-178: process.wait() returns (its return code is not looked
\* at), the chunk is put on the queue
CaptureDone ==
    /\ mainpc = "capture"
    /\ \E ok \in CaptureOutcomes : capture_result(ok, chunk_num)
    /\ put(Job(audio_file, chunk_num))
    /\ enqueued' = Append(enqueued, chunk_num)
    /\ mainpc' = "sleep"
    /\ UNCHANGED <<gvars, mode, num_workers, keep_audio, long_text, capture_may_fail, duration, audio_file, running, chunk_num, wpc, wjob,
                   master_original_file, master_translation_file, interrupts,
                   intChunk, dequeued, failures>>

\* lines 181-182 then 169-174: the delay ends, chunk_num += 1, next capture
NextChunk ==
    /\ mainpc = "sleep"
    /\ chunk_num < MaxChunks
    /\ chunk_num' = next_chunk_num(chunk_num)
    /\ audio_file' \in audio_paths(audio_file, chunk_num \in capture_failed, chunk_num')
    /\ audio_files' = audio_files \cup {audio_file'}
    /\ mainpc' = "capture"
    /\ UNCHANGED <<gvars, mode, num_workers, keep_audio, long_text, capture_may_fail, duration, capture_failed, running, audio_queue,
                   unfinished_tasks, wpc, wjob, master_original_file,
                   master_translation_file, interrupts, intChunk,
                   enqueued, dequeued, failures>>

\* lines 214-216: the fixed-duration capture ends, its file is put
FixedCaptureDone ==
    /\ mainpc = "wait_fixed"
    /\ \E ok \in CaptureOutcomes : capture_result(ok, chunk_num)
    /\ put(Job(audio_file, chunk_num))
    /\ enqueued' = Append(enqueued, chunk_num)
    /\ mainpc' = "join"
    /\ UNCHANGED <<gvars, mode, num_workers, keep_audio, long_text, capture_may_fail, duration, audio_file, running, chunk_num, wpc, wjob,
                   master_original_file, master_translation_file, interrupts,
                   intChunk, dequeued, failures>>

\* line 222 returning normally: the open-ended capture process ended by
\* itself, control falls through to line 231 and nothing is put
OpenCaptureEnds ==
    /\ mainpc = "wait_open"
    /\ mainpc' = "sentinels"
    /\ UNCHANGED <<gvars, mode, num_workers, keep_audio, long_text, capture_may_fail, duration, audio_file, capture_failed, running, chunk_num, audio_queue,
                   unfinished_tasks, wpc, wjob, master_original_file,
                   master_translation_file, audio_files, interrupts, intChunk, enqueued,
                   dequeued, failures>>

\* where a KeyboardInterrupt raised at each position of main() lands:
\* the try of lines 166-182 and the try of line 222 have a handler, every
\* other position (lines 189-200, 214-217, 225-240) has none
InTry == {"capture", "sleep", "wait_open"}
NoHandler == {"wait_fixed", "join", "sentinels", "end_original", "end_translation"}

\* the operator's Ctrl+C, delivered to the main thread
Interrupt ==
    /\ mainpc \in InTry \cup NoHandler
    /\ interrupts' = interrupts + 1
    /\ intChunk' = IF interrupts = 0 /\ mainpc = "capture" THEN chunk_num ELSE intChunk
    /\ \/ /\ mainpc \in {"capture", "sleep"}               \* lines 184-188
          /\ mainpc' = "join"
          /\ UNCHANGED <<audio_queue, unfinished_tasks, enqueued>>
       \/ /\ mainpc = "wait_open"                           \* lines 223-228
          /\ put(Job(audio_file, chunk_num))
          /\ enqueued' = Append(enqueued, chunk_num)
          /\ mainpc' = "join"
       \/ /\ mainpc \in NoHandler                           \* propagates out of main()
          /\ mainpc' = "aborted"
          /\ UNCHANGED <<audio_queue, unfinished_tasks, enqueued>>
    /\ UNCHANGED <<gvars, audio_files, mode, num_workers, keep_audio, long_text, capture_may_fail, duration, audio_file, capture_failed, running, chunk_num, wpc, wjob,
                   master_original_file, master_translation_file, dequeued,
                   failures>>

\* lines 189 / 217 / 229: audio_queue.join() returns
JoinReturns ==
    /\ mainpc = "join"
    /\ all_tasks_done
    /\ mainpc' = "sentinels"
    /\ UNCHANGED <<gvars, mode, num_workers, keep_audio, long_text, capture_may_fail, duration, audio_file, capture_failed, running, chunk_num, audio_queue,
                   unfinished_tasks, wpc, wjob, master_original_file,
                   master_translation_file, audio_files, interrupts, intChunk,
                   enqueued, dequeued, failures>>

\* lines 192-193 / 232-233: "for _ in workers: put((None, None))", one
\* (None, None) per worker
sentinels_one_short(n) == [i \in 1..(n - 1) |-> Sentinel]
sentinels(n) == [i \in 1..n |-> Sentinel]

PutSentinels ==
    /\ mainpc = "sentinels"
    /\ audio_queue' = audio_queue \o sentinels(num_workers)
    /\ unfinished_tasks' = unfinished_tasks + Len(sentinels(num_workers))
    /\ mainpc' = "end_original"
    /\ UNCHANGED <<gvars, mode, num_workers, keep_audio, long_text, capture_may_fail, duration, audio_file, capture_failed, running, chunk_num, wpc, wjob,
                   master_original_file, master_translation_file, audio_files,
                   interrupts, intChunk, enqueued, dequeued, failures>>

\* lines 197-198 / 237-238
WriteEndOriginal ==
    /\ mainpc = "end_original"
    /\ master_original_file' = Append(master_original_file, Write("ended", 0))
    /\ mainpc' = "end_translation"
    /\ UNCHANGED <<gvars, mode, num_workers, keep_audio, long_text, capture_may_fail, duration, audio_file, capture_failed, running, chunk_num, audio_queue,
                   unfinished_tasks, wpc, wjob, master_translation_file,
                   audio_files, interrupts, intChunk, enqueued, dequeued, failures>>

\* lines 199-200 / 239-240
WriteEndTranslation ==
    /\ mainpc = "end_translation"
    /\ master_translation_file' = Append(master_translation_file, Write("ended", 0))
    /\ mainpc' = "done"
    /\ UNCHANGED <<gvars, mode, num_workers, keep_audio, long_text, capture_may_fail, duration, audio_file, capture_failed, running, chunk_num, audio_queue,
                   unfinished_tasks, wpc, wjob, master_original_file,
                   audio_files, interrupts, intChunk, enqueued, dequeued, failures>>

\* main() has returned or raised: the interpreter exits and the daemon
\* worker threads (daemon=True, line 156) stop wherever they are
ProcessExit ==
    /\ mainpc \in {"done", "aborted"}
    /\ running
    /\ running' = FALSE
    /\ UNCHANGED <<gvars, mode, num_workers, keep_audio, long_text, capture_may_fail, duration, audio_file, capture_failed, mainpc, chunk_num, audio_queue,
                   unfinished_tasks, wpc, wjob, master_original_file,
                   master_translation_file, audio_files, interrupts, intChunk,
                   enqueued, dequeued, failures>>

\* ------------------------------------------- transcription_worker, lines 89-104
\* where a worker stands after an engine call raised inside process_audio:
\* the except of line 85 returns False and the worker's finally runs
after_engine_error_uncaught == "crashed"
after_engine_error == "task_done"

\* Queue.task_done on the unfinished-task count
task_done_forgotten(n) == n
task_done(n) == n - 1

\* line 94: "if audio_file is None"
is_sentinel_never(item) == FALSE
is_sentinel(item) == item.audio_file = Sentinel.audio_file

\* lines 95 and 103-104: the break sits inside the try, so the finally
\* clause (task_done) runs before the loop is left
after_sentinel_skips_finally == "exited"
after_sentinel == "break"

\* line 93-95: audio_queue.get() hands over the oldest item; a sentinel
\* breaks the loop (through the finally clause).  The workers blocked in
\* get() are indistinguishable (same code, no job held), so the one that is
\* woken is taken to be the lowest-numbered of them.
WorkerGet(w) ==
    /\ running /\ w \in Started
    /\ wpc[w] = "get"
    /\ \A v \in Started : wpc[v] = "get" => w <= v
    /\ audio_queue # <<>>
    /\ audio_queue' = QueueAfterGet(audio_queue)
    /\ IF is_sentinel(Head(audio_queue))
       THEN /\ wpc' = [wpc EXCEPT ![w] = after_sentinel]
            /\ UNCHANGED <<wjob, dequeued>>
       ELSE /\ wpc' = [wpc EXCEPT ![w] = "transcribe"]
            /\ wjob' = [wjob EXCEPT ![w] = Head(audio_queue)]
            /\ dequeued' = Append(dequeued, Head(audio_queue).chunk_num)
    /\ UNCHANGED <<gvars, mode, num_workers, keep_audio, long_text, capture_may_fail, duration, audio_file, capture_failed, mainpc, running, chunk_num,
                   unfinished_tasks, master_original_file,
                   master_translation_file, audio_files, interrupts, intChunk,
                   enqueued, failures>>

\* how the two f.write calls of one with-block can reach the file: a text
\* that fits the file object's buffer is flushed together with its header
\* when the block closes the file; a longer one (big) is flushed on its own,
\* after the header
WriteSizes == IF long_text THEN BOOLEAN ELSE {FALSE}

\* whisper_model.transcribe(audio_file, ...), lines 46 and 62, can succeed
\* only on a file that is there
readable(f) == f \in audio_files

\* process_audio lines 40-59: the source-language pass, then the append to
\* the master original file
Transcribe(w) ==
    /\ running /\ w \in Started
    /\ wpc[w] = "transcribe"
    /\ \/ /\ wpc' = [wpc EXCEPT ![w] = after_engine_error]
          /\ failures' = failures \cup {<<wjob[w].chunk_num, "transcribe">>}
          /\ UNCHANGED master_original_file
       \/ \E big \in WriteSizes :
          /\ readable(wjob[w].audio_file)
          /\ master_original_file' =
                IF big THEN Append(master_original_file, Write("chunk_head", wjob[w].chunk_num))
                       ELSE master_original_file \o Entry(wjob[w].chunk_num)
          /\ wpc' = [wpc EXCEPT ![w] = IF big THEN "original_body" ELSE "translate"]
          /\ UNCHANGED failures
    /\ UNCHANGED <<gvars, mode, num_workers, keep_audio, long_text, capture_may_fail, duration, audio_file, capture_failed, mainpc, running, chunk_num,
                   audio_queue, unfinished_tasks, wjob, master_translation_file,
                   audio_files, interrupts, intChunk, enqueued, dequeued>>

\* line 58: the body of a long text reaches the original file
WriteOriginalBody(w) ==
    /\ running /\ w \in Started
    /\ wpc[w] = "original_body"
    /\ master_original_file' = Append(master_original_file, Write("chunk_body", wjob[w].chunk_num))
    /\ wpc' = [wpc EXCEPT ![w] = "translate"]
    /\ UNCHANGED <<gvars, mode, num_workers, keep_audio, long_text, capture_may_fail, duration, audio_file, capture_failed, mainpc, running, chunk_num,
                   audio_queue, unfinished_tasks, wjob, master_translation_file,
                   audio_files, interrupts, intChunk, enqueued, dequeued, failures>>

\* process_audio lines 61-74: the translation pass, then the append to the
\* master translation file
Translate(w) ==
    /\ running /\ w \in Started
    /\ wpc[w] = "translate"
    /\ \/ /\ wpc' = [wpc EXCEPT ![w] = after_engine_error]
          /\ failures' = failures \cup {<<wjob[w].chunk_num, "translate">>}
          /\ UNCHANGED master_translation_file
       \/ \E big \in WriteSizes :
          /\ readable(wjob[w].audio_file)
          /\ master_translation_file' =
                IF big THEN Append(master_translation_file, Write("chunk_head", wjob[w].chunk_num))
                       ELSE master_translation_file \o Entry(wjob[w].chunk_num)
          /\ wpc' = [wpc EXCEPT ![w] = IF big THEN "translation_body" ELSE "remove"]
          /\ UNCHANGED failures
    /\ UNCHANGED <<gvars, mode, num_workers, keep_audio, long_text, capture_may_fail, duration, audio_file, capture_failed, mainpc, running, chunk_num,
                   audio_queue, unfinished_tasks, wjob, master_original_file,
                   audio_files, interrupts, intChunk, enqueued, dequeued>>

\* line 73: the body of a long text reaches the translation file
WriteTranslationBody(w) ==
    /\ running /\ w \in Started
    /\ wpc[w] = "translation_body"
    /\ master_translation_file' = Append(master_translation_file, Write("chunk_body", wjob[w].chunk_num))
    /\ wpc' = [wpc EXCEPT ![w] = "remove"]
    /\ UNCHANGED <<gvars, mode, num_workers, keep_audio, long_text, capture_may_fail, duration, audio_file, capture_failed, mainpc, running, chunk_num,
                   audio_queue, unfinished_tasks, wjob, master_original_file,
                   audio_files, interrupts, intChunk, enqueued, dequeued, failures>>

\* lines 81-82: the except around os.remove prints a warning; the failures
\* that process_audio reports (return False) stay as they are
remove_error_escalated(fs, n) == fs \cup {<<n, "remove">>}
remove_error(fs, n) == fs

\* process_audio lines 76-84: os.remove unless keep_audio; a failed removal
\* is printed as a warning and the function still returns True
RemoveAudio(w) ==
    /\ running /\ w \in Started
    /\ wpc[w] = "remove"
    /\ IF keep_audio
       THEN UNCHANGED <<audio_files, failures>>
       ELSE \/ /\ audio_files' = audio_files \ {wjob[w].audio_file}
               /\ UNCHANGED failures
            \/ /\ UNCHANGED audio_files
               /\ failures' = remove_error(failures, wjob[w].chunk_num)
    /\ wpc' = [wpc EXCEPT ![w] = "task_done"]
    /\ UNCHANGED <<gvars, mode, num_workers, keep_audio, long_text, capture_may_fail, duration, audio_file, capture_failed, mainpc, running, chunk_num,
                   audio_queue, unfinished_tasks, wjob, master_original_file,
                   master_translation_file, interrupts, intChunk, enqueued,
                   dequeued>>

\* lines 103-104: the finally clause, then back to the loop head, or out of
\* the loop after a sentinel
TaskDone(w) ==
    /\ running /\ w \in Started
    /\ wpc[w] \in {"task_done", "break"}
    /\ unfinished_tasks' = task_done(unfinished_tasks)
    /\ wpc' = [wpc EXCEPT ![w] = IF wpc[w] = "break" THEN "exited" ELSE "get"]
    /\ wjob' = [wjob EXCEPT ![w] = NoJob]
    /\ UNCHANGED <<gvars, mode, num_workers, keep_audio, long_text, capture_may_fail, duration, audio_file, capture_failed, mainpc, running, chunk_num,
                   audio_queue, master_original_file, master_translation_file,
                   audio_files, interrupts, intChunk, enqueued, dequeued, failures>>

transcription_worker(w) ==
    \/ WorkerGet(w)
    \/ Transcribe(w)
    \/ Translate(w)
    \/ RemoveAudio(w)
    \/ TaskDone(w)

\* the steps only a long text adds
long_text_write(w) ==
    \/ WriteOriginalBody(w)
    \/ WriteTranslationBody(w)

\* ------------------------------------------------------- specifications
Next ==
    \/ StartSession
    \/ CaptureDone
    \/ NextChunk
    \/ FixedCaptureDone
    \/ OpenCaptureEnds
    \/ Interrupt
    \/ JoinReturns
    \/ PutSentinels
    \/ WriteEndOriginal
    \/ WriteEndTranslation
    \/ ProcessExit
    \/ \E w \in Workers : transcription_worker(w)

Spec == Init /\ [][Next]_vars

TimedSpec == TimedInit /\ [][Next]_vars

LongTextNext ==
    \/ Next
    \/ \E w \in Workers : long_text_write(w)

LongTextSpec == LongTextInit /\ [][LongTextNext]_vars

\* the drain and the finalisation of main() are ordinary code of a live
\* thread; every worker thread is scheduled; every engine call returns or
\* raises.  The operator and the capture process are under no obligation.
Drain == JoinReturns \/ PutSentinels \/ WriteEndOriginal \/ WriteEndTranslation

FairSpec ==
    /\ ReliableInit
    /\ [][Next]_vars
    /\ WF_vars(Drain)
    /\ \A w \in Workers : WF_vars(transcription_worker(w))

\* ====================================================== the Qt front end
RemoveAt(q, i) == SubSeq(q, 1, i - 1) \o SubSeq(q, i + 1, Len(q))

RecorderRunning == {"starting", "capturing", "terminated"}

\* toggle_continuous_mode, lines 278-280; the checkbox is disabled while
\* disable_settings(True) is in effect
toggle_continuous_mode ==
    /\ g_pc = "idle"
    /\ ~g_settings_disabled
    /\ g_continuous_mode' = ~g_continuous_mode
    /\ UNCHANGED <<cvars, g_pc, g_is_recording, g_chunk_num, g_settings_disabled,
                   g_session_name, g_master, g_files, g_recorder, g_orphans,
                   g_events, g_transcribers, g_sessions>>

\* the user replaces the text of the session name field (enabled with the
\* other settings) by a name not used before; modelled as clearing it, which
\* makes start_recording generate a fresh name
edit_session_name ==
    /\ g_pc = "idle"
    /\ ~g_settings_disabled
    /\ g_session_name # 0
    /\ g_session_name' = 0
    /\ UNCHANGED <<cvars, g_pc, g_is_recording, g_continuous_mode, g_chunk_num,
                   g_settings_disabled, g_master, g_files, g_recorder, g_orphans,
                   g_events, g_transcribers, g_sessions>>

\* lines 352-359 / 368-375: self.recorder_thread = AudioRecorderThread(...),
\* start(); a thread the attribute named before keeps running
new_recorder_thread ==
    /\ g_orphans' = IF g_recorder \in RecorderRunning
                    THEN Append(g_orphans, g_recorder) ELSE g_orphans
    /\ g_recorder' = "starting"

\* lines 412-422 of stop_recording: "# Ended" appended to both master files,
\* settings enabled again
finish_stop_recording ==
    /\ g_files' = [g_files EXCEPT ![g_master] =
                      [original |-> Append(@.original, Write("ended", 0)),
                       translation |-> Append(@.translation, Write("ended", 0))]]
    /\ g_settings_disabled' = FALSE
    /\ g_pc' = "idle"

\* stop_recording, lines 403-422: with a running recorder thread the main
\* thread calls stop() (which terminates the capture process only if it has
\* been spawned) and blocks in recorder_thread.wait()
stop_recording ==
    /\ g_is_recording' = FALSE
    /\ IF g_recorder \in RecorderRunning
       THEN /\ g_recorder' = IF g_recorder = "capturing" THEN "terminated" ELSE g_recorder
            /\ g_pc' = "stop_wait"
            /\ UNCHANGED <<g_files, g_settings_disabled>>
       ELSE /\ finish_stop_recording
            /\ UNCHANGED g_recorder

\* toggle_recording -> start_recording, lines 293-342
toggle_recording_start ==
    /\ g_pc = "idle"
    /\ ~g_is_recording
    /\ g_sessions < MaxSessions
    /\ LET name == IF g_session_name = 0 THEN g_sessions + 1 ELSE g_session_name
       IN  /\ g_session_name' = name
           /\ g_master' = name
           /\ g_files' = [g_files EXCEPT ![name] =
                             [original |-> <<Write("header", 0)>>,
                              translation |-> <<Write("header", 0)>>]]
    /\ g_is_recording' = TRUE
    /\ g_chunk_num' = 1
    /\ g_settings_disabled' = TRUE
    /\ new_recorder_thread
    /\ g_sessions' = g_sessions + 1
    /\ UNCHANGED <<cvars, g_pc, g_continuous_mode, g_events, g_transcribers>>

\* toggle_recording -> stop_recording, lines 293-297
toggle_recording_stop ==
    /\ g_pc = "idle"
    /\ g_is_recording
    /\ stop_recording
    /\ UNCHANGED <<cvars, g_continuous_mode, g_chunk_num, g_session_name, g_master,
                   g_orphans, g_events, g_transcribers, g_sessions>>

\* stop_recording, line 410 returning: the recorder thread has finished
stop_recording_resumes ==
    /\ g_pc = "stop_wait"
    /\ g_recorder = "finished"
    /\ finish_stop_recording
    /\ UNCHANGED <<cvars, g_is_recording, g_continuous_mode, g_chunk_num,
                   g_session_name, g_master, g_recorder, g_orphans, g_events,
                   g_transcribers, g_sessions>>

\* process_recorded_audio, lines 377-392: the slot of recording_finished
process_recorded_audio ==
    /\ g_pc = "idle"
    /\ g_events # <<>> /\ Head(g_events) = "recording_finished"
    /\ g_events' = Tail(g_events)
    /\ g_transcribers' = Append(g_transcribers,
            [name |-> g_master,
             chunk |-> IF g_continuous_mode THEN g_chunk_num ELSE 0,
             sess |-> g_sessions,
             pc |-> "transcribe"])
    /\ UNCHANGED <<cvars, g_pc, g_is_recording, g_continuous_mode, g_chunk_num,
                   g_settings_disabled, g_session_name, g_master, g_files,
                   g_recorder, g_orphans, g_sessions>>

\* on_transcription_finished, lines 394-401: the slot of processing_finished
on_transcription_finished ==
    /\ g_pc = "idle"
    /\ g_events # <<>> /\ Head(g_events) = "processing_finished"
    /\ g_events' = Tail(g_events)
    /\ IF g_continuous_mode /\ g_is_recording
       THEN /\ g_chunk_num < MaxGuiChunks
            /\ g_chunk_num' = g_chunk_num + 1
            /\ new_recorder_thread                \* start_continuous_recording
            /\ UNCHANGED <<g_pc, g_is_recording, g_files, g_settings_disabled>>
       ELSE IF ~g_continuous_mode
       THEN /\ stop_recording
            /\ UNCHANGED <<g_chunk_num, g_orphans>>
       ELSE UNCHANGED <<g_pc, g_is_recording, g_chunk_num, g_files,
                        g_settings_disabled, g_recorder, g_orphans>>
    /\ UNCHANGED <<cvars, g_continuous_mode, g_session_name, g_master,
                   g_transcribers, g_sessions>>

\* AudioRecorderThread.run, lines 34-53; i = 0 is self.recorder_thread,
\* i > 0 the i-th thread that attribute no longer names.  The capture
\* process ends when its duration is over, when it is terminated, or when it
\* fails; run then emits recording_finished, delivered through the event
\* queue of the main thread.
AudioRecorderThread_run(i) ==
    LET st == IF i = 0 THEN g_recorder ELSE g_orphans[i]
    IN  \/ /\ st = "starting"                     \* lines 35-49: Popen
           /\ IF i = 0
              THEN g_recorder' = "capturing" /\ UNCHANGED g_orphans
              ELSE g_orphans' = [g_orphans EXCEPT ![i] = "capturing"] /\ UNCHANGED g_recorder
           /\ UNCHANGED <<cvars, g_pc, g_is_recording, g_continuous_mode,
                          g_chunk_num, g_settings_disabled, g_session_name,
                          g_master, g_files, g_events, g_transcribers, g_sessions>>
        \/ /\ st \in {"capturing", "terminated"}  \* lines 50-53
           /\ IF i = 0
              THEN g_recorder' = "finished" /\ UNCHANGED g_orphans
              ELSE g_orphans' = RemoveAt(g_orphans, i) /\ UNCHANGED g_recorder
           /\ g_events' = Append(g_events, "recording_finished")
           /\ UNCHANGED <<cvars, g_pc, g_is_recording, g_continuous_mode,
                          g_chunk_num, g_settings_disabled, g_session_name,
                          g_master, g_files, g_transcribers, g_sessions>>

\* line 129: processing_finished emitted, run returns
transcription_ends(i) ==
    /\ g_transcribers' = RemoveAt(g_transcribers, i)
    /\ g_events' = Append(g_events, "processing_finished")

\* the thread's append to one of its two master files
gui_append(i, which, writes) ==
    g_files' = [g_files EXCEPT ![g_transcribers[i].name][which] = @ \o writes]

\* TranscriptionThread.run, lines 79-129.  The header and the text written
\* inside one "with open(..., 'a')" block reach the file together.
TranscriptionThread_run(i) ==
    LET t == g_transcribers[i]
    IN  /\ \/ /\ t.pc = "transcribe"              \* line 88 raises
              /\ transcription_ends(i)
              /\ UNCHANGED g_files
           \/ /\ t.pc = "transcribe"              \* lines 88-102
              /\ gui_append(i, "original", Entry(t.chunk))
              /\ g_transcribers' = [g_transcribers EXCEPT ![i].pc = "translate"]
              /\ UNCHANGED g_events
           \/ /\ t.pc = "translate"               \* line 105 raises
              /\ transcription_ends(i)
              /\ UNCHANGED g_files
           \/ /\ t.pc = "translate"               \* lines 105-129
              /\ gui_append(i, "translation", Entry(t.chunk))
              /\ transcription_ends(i)
        /\ UNCHANGED <<cvars, g_pc, g_is_recording, g_continuous_mode, g_chunk_num,
                       g_settings_disabled, g_session_name, g_master, g_recorder,
                       g_orphans, g_sessions>>

\* the command line variables, unused by the front end
NoCli ==
    /\ mode = "continuous" /\ num_workers = 1 /\ keep_audio = FALSE
    /\ long_text = FALSE /\ capture_may_fail = FALSE /\ duration = 0
    /\ mainpc = "start" /\ running = FALSE /\ chunk_num = 0 /\ audio_file = 0
    /\ audio_queue = <<>> /\ unfinished_tasks = 0
    /\ wpc = [w \in Workers |-> "unstarted"]
    /\ wjob = [w \in Workers |-> NoJob]
    /\ master_original_file = <<>> /\ master_translation_file = <<>>
    /\ audio_files = {}
    /\ interrupts = 0 /\ intChunk = 0
    /\ enqueued = <<>> /\ dequeued = <<>> /\ failures = {}
    /\ capture_failed = {}

GuiInit == GuiConstructed /\ NoCli

GuiNext ==
    \/ toggle_continuous_mode
    \/ edit_session_name
    \/ toggle_recording_start
    \/ toggle_recording_stop
    \/ stop_recording_resumes
    \/ process_recorded_audio
    \/ on_transcription_finished
    \/ \E i \in 0..Len(g_orphans) : AudioRecorderThread_run(i)
    \/ \E i \in 1..Len(g_transcribers) : TranscriptionThread_run(i)

GuiSpec == GuiInit /\ [][GuiNext]_vars

\* ------------------------------------------------- reading a master file
Range(q) == {q[i] : i \in 1..Len(q)}

\* the chunk numbers of the chunk headers of a file, in file order
ChunkHeads(f) ==
    LET heads == SelectSeq(f, LAMBDA x : x.kind = "chunk_head")
    IN  [i \in 1..Len(heads) |-> heads[i].chunk]

StrictlyIncreasing(q) == \A i, j \in 1..Len(q) : i < j => q[i] < q[j]

HasEntry(f, n) == \E i \in 1..Len(f) : f[i].kind = "chunk_head" /\ f[i].chunk = n
\* an explicit failure / skip / gap note for chunk n
HasNote(f, n) == \E i \in 1..Len(f) : f[i].kind = "note" /\ f[i].chunk = n
HasEnded(f) == \E i \in 1..Len(f) : f[i].kind = "ended"
BothEnded == HasEnded(master_original_file) /\ HasEnded(master_translation_file)

Count(q, x) == Cardinality({i \in 1..Len(q) : q[i] = x})
IsPrefix(p, q) == Len(p) <= Len(q) /\ \A i \in 1..Len(p) : p[i] = q[i]

\* --------------------------------------------------------------- claims

\* C1: in continuous mode, whatever the worker count and the order in which
\* the workers complete, the chunk entries of each master file appear in
\* strictly increasing chunk-number order.
C1_EntriesInChunkOrder ==
    mode = "continuous" =>
        /\ StrictlyIncreasing(ChunkHeads(master_original_file))
        /\ StrictlyIncreasing(ChunkHeads(master_translation_file))

\* C2: a chunk whose transcription failed does not vanish: once a continuous
\* session has ended, every dequeued chunk has, in each master file, an entry or an
\* explicit note.
C2_NoSilentLoss ==
    (mode = "continuous" /\ mainpc = "done") =>
        \A n \in Range(dequeued) :
            /\ HasEntry(master_original_file, n) \/ HasNote(master_original_file, n)
            /\ HasEntry(master_translation_file, n) \/ HasNote(master_translation_file, n)

\* C3: an engine error is caught: the step in which a worker's engine call
\* raises leaves that worker at its finally clause (not dead), leaves the
\* queue and the other workers as they were, and the finally clause leads
\* back to the dequeue loop.
C3_FailureIsolation ==
    [][\A w \in Workers :
        /\ (wpc[w] \in {"transcribe", "translate"} /\ failures' # failures /\ wpc'[w] # wpc[w])
              => /\ wpc'[w] = "task_done"
                 /\ audio_queue' = audio_queue
                 /\ running'
                 /\ \A v \in Workers \ {w} : wpc'[v] = wpc[v]
        /\ (wpc[w] = "task_done" /\ wpc'[w] # wpc[w]) => wpc'[w] = "get"
        /\ wpc'[w] # "crashed"]_vars

\* C3 witness: the only worker has hit an engine error and is now processing
\* a later chunk
C3_Witness ==
    /\ num_workers = 1
    /\ wpc[1] = "translate"
    /\ \E f \in failures : f[1] < wjob[1].chunk_num

\* C4: in continuous mode, once the interrupt has been taken (main waits in
\* audio_queue.join()), the end marker is eventually in both master files,
\* unless the operator interrupts a second time.
C4_DrainLiveness ==
    (mode = "continuous" /\ mainpc = "join") ~> (BothEnded \/ interrupts >= 2)

\* C4 witness: a continuous session with a failed job has reached Ended
C4_Witness ==
    /\ mode = "continuous"
    /\ interrupts = 1
    /\ failures # {}
    /\ BothEnded

\* C5: an interrupt delivered at any point of a started session is followed
\* by the end marker in both master files: no session that was interrupted
\* terminates without them.
C5_InterruptEndsSession ==
    (interrupts >= 1 /\ mainpc \in {"done", "aborted"}) => BothEnded

\* C6: each master file is the session header, then chunk writes, then at
\* most one "# Ended" marker which nothing follows; a completed session has
\* the marker in both files.
WellFormed(f) ==
    f # <<>> =>
        /\ f[1].kind = "header"
        /\ \A i \in 2..Len(f) : f[i].kind # "header"
        /\ \A i \in 1..Len(f) : f[i].kind = "ended" => i = Len(f)

C6_EndMarkerTerminal ==
    /\ WellFormed(master_original_file)
    /\ WellFormed(master_translation_file)
    /\ mainpc = "done" => BothEnded

\* C6 witness: a completed two-worker session with chunk entries before the
\* marker in both files
C6_Witness ==
    /\ mainpc = "done"
    /\ num_workers = 2
    /\ Len(ChunkHeads(master_original_file)) = 2
    /\ Len(ChunkHeads(master_translation_file)) = 2

\* C8: the jobs handed out by get are exactly the jobs put, each once and in
\* put order; no two workers hold the same job; no chunk has two entries in
\* a file; when an end marker is written every job put has been dequeued and
\* no worker is still processing one.
C8_ExactlyOnceHandoff ==
    /\ IsPrefix(dequeued, enqueued)
    /\ \A w, v \in Workers : (w # v /\ wjob[w] # NoJob) => wjob[w] # wjob[v]
    /\ \A n \in Range(enqueued) :
        /\ Count(ChunkHeads(master_original_file), n) <= 1
        /\ Count(ChunkHeads(master_translation_file), n) <= 1
    /\ (HasEnded(master_original_file) \/ HasEnded(master_translation_file)) =>
        /\ dequeued = enqueued
        /\ \A w \in Workers : wjob[w] = NoJob

\* C8 witness: two chunks were put, and both workers hold one of them
C8_Witness ==
    /\ Len(enqueued) = 2
    /\ wjob[1] # NoJob /\ wjob[2] # NoJob

\* C9: an interrupt that arrives while chunk k is being captured keeps that
\* chunk: when no job failed, the ended session has an entry (or a gap note)
\* for k in each master file.
C9_InterruptedChunkKept ==
    (mainpc = "done" /\ intChunk > 0 /\ failures = {}) =>
        /\ HasEntry(master_original_file, intChunk) \/ HasNote(master_original_file, intChunk)
        /\ HasEntry(master_translation_file, intChunk) \/ HasNote(master_translation_file, intChunk)

\* C10: at session end the original file has an entry for a chunk exactly
\* when the translation file has one.
C10_TranscriptsParallel ==
    mainpc = "done" =>
        \A n \in Range(dequeued) :
            HasEntry(master_original_file, n) <=> HasEntry(master_translation_file, n)

\* C7: in the front end, in every master file "# Ended" is the last write of
\* its session: no chunk entry follows it and it is not appended twice.
C7_GuiEndMarkerTerminal ==
    \A n \in Names :
        /\ WellFormed(g_files[n].original)
        /\ WellFormed(g_files[n].translation)

\* C11: in continuous mode a chunk whose capture process ended with a failure
\* status is skipped: it is never put on the queue.
C11_FailedCaptureSkipped ==
    mode = "continuous" => \A n \in capture_failed : n \notin Range(enqueued)

\* C12: a continuous session given a total duration stops emitting chunks by
\* itself once that duration is reached: with no interrupt, no more chunks
\* are put than fit in the duration.
C12_DurationEndsContinuous ==
    (mode = "continuous" /\ duration > 0 /\ interrupts = 0) =>
        Len(enqueued) <= duration

\* C13: a one-shot session hands exactly one chunk to the pipeline however
\* its capture ended: when the end marker has been written, exactly one job
\* has been put and it has been handed to a worker.
C13_OneShotOneChunk ==
    (mode # "continuous" /\ HasEnded(master_original_file)) =>
        /\ Len(enqueued) = 1
        /\ dequeued = enqueued

\* the chunks whose temporary audio file is the path f and that are still in
\* the pipeline: being captured, waiting in the queue, or held by a worker
ChunksAt(f) ==
    {n \in {chunk_num} : mainpc = "capture" /\ audio_file = f}
        \cup {audio_queue[i].chunk_num : i \in {j \in 1..Len(audio_queue) : audio_queue[j].audio_file = f}}
        \cup {wjob[w].chunk_num : w \in {v \in Workers : wjob[v].audio_file = f}}

\* C14: a worker's os.remove takes a temporary audio file away only when
\* keep_audio is false and only after both entries of every chunk that the
\* file belongs to have been appended (so never for a chunk that failed or
\* is not yet processed).
C14_RemovalAfterBothAppends ==
    [][\A w \in Workers :
          (/\ wpc[w] = "remove" /\ wpc'[w] = "task_done"
           /\ wjob[w].audio_file \in audio_files \ audio_files')
          => /\ ~keep_audio
             /\ \A n \in ChunksAt(wjob[w].audio_file) :
                   /\ HasEntry(master_original_file, n)
                   /\ HasEntry(master_translation_file, n)]_vars

\* the chunk entries of a file, in file order
ChunkWrites(f) == SelectSeq(f, LAMBDA x : x.kind \in {"chunk_head", "chunk_body"})

\* C15: the master transcripts are append-only: every step of the front end
\* leaves the chunk entries a master file already holds in place, a later
\* operation only adds entries after them.
C15_GuiAppendOnly ==
    [][\A n \in Names :
          /\ IsPrefix(ChunkWrites(g_files[n].original), ChunkWrites(g_files'[n].original))
          /\ IsPrefix(ChunkWrites(g_files[n].translation), ChunkWrites(g_files'[n].translation))]_vars

\* the workers that have taken a sentinel off the queue
Stopped == {w \in Started : wpc[w] \in {"break", "exited"}}

\* every job put so far has been handed out and finished
AllJobsCompleted ==
    /\ dequeued = enqueued
    /\ \A w \in Workers : wjob[w] = NoJob

\* C16 as stated: when the end marker is in a master file, every job has been
\* dequeued and completed and every worker has consumed its sentinel and
\* left its loop.
C16_ShutdownOrdering ==
    HasEnded(master_original_file) =>
        /\ AllJobsCompleted
        /\ \A w \in Started : wpc[w] = "exited"

\* C16, amended: when the end marker is in a master file, every job has been
\* dequeued and completed and one sentinel per worker has been put; each
\* sentinel is still in the queue or has been taken by a worker, which has
\* left or is leaving its loop.
C16_MarkerAfterJobsAndSentinels ==
    HasEnded(master_original_file) =>
        /\ AllJobsCompleted
        /\ Count(audio_queue, Sentinel) + Cardinality(Stopped) = num_workers
        /\ \A w \in Started : wpc[w] \in {"get", "break", "exited"}

\* C16 witness: a two-chunk session has its end marker while a worker has not
\* yet taken its sentinel
C16_Witness ==
    /\ HasEnded(master_original_file)
    /\ Len(enqueued) = 2
    /\ \E w \in Started : wpc[w] = "get"
    /\ Count(audio_queue, Sentinel) > 0

\* no real job stands behind a sentinel in the queue
SentinelsLast ==
    \A i, j \in 1..Len(audio_queue) :
        (i < j /\ audio_queue[i] = Sentinel) => audio_queue[j] = Sentinel

\* no sentinel has been handed to process_audio as a job
NoSentinelProcessed ==
    /\ \A w \in Workers : wjob[w] # Sentinel
    /\ Sentinel.chunk_num \notin Range(dequeued)

\* the sentinels put so far: still queued, or taken by a worker
SentinelsPut == Count(audio_queue, Sentinel) + Cardinality(Stopped)

Contiguous(f) ==
    \A i \in 1..Len(f) :
        (f[i].kind = "chunk_head" /\ i < Len(f)) =>
            (f[i + 1].kind = "chunk_body" /\ f[i + 1].chunk = f[i].chunk)

\* C18: appends to one master file never interleave: whatever the number of
\* workers, the header and the body written for one chunk are next to each
\* other in the file.
C18_AppendsContiguous ==
    /\ Contiguous(master_original_file)
    /\ Contiguous(master_translation_file)

\* the chunks of q that have an entry in the file f, in the order of q
WithEntry(q, f) == SelectSeq(q, LAMBDA n : HasEntry(f, n))

\* C19: with one worker the pipeline is a pass-through: jobs are handed out
\* (and so completed) in the order they were put, and the entries of each
\* master file stand in that same order.
C19_SingleWorkerPassThrough ==
    num_workers = 1 =>
        /\ IsPrefix(dequeued, enqueued)
        /\ ChunkHeads(master_original_file) = WithEntry(enqueued, master_original_file)
        /\ ChunkHeads(master_translation_file) = WithEntry(enqueued, master_translation_file)

\* C19 witness: one worker has written both entries of two chunks
C19_Witness ==
    /\ num_workers = 1
    /\ Len(ChunkHeads(master_original_file)) = 2
    /\ Len(ChunkHeads(master_translation_file)) = 2

\* C20: in continuous mode the jobs put by main carry the numbers 1, 2, 3, ...
\* in put order, none repeated or skipped, wherever the interrupt arrives.
C20_ChunkNumbering ==
    mode = "continuous" =>
        \A i \in 1..Len(enqueued) : enqueued[i] = i

\* C20 witness: two chunks were put and numbered, and the interrupt has
\* arrived
C20_Witness ==
    /\ mode = "continuous"
    /\ Len(enqueued) = 2
    /\ interrupts > 0

\* the workers that are reading or deleting the audio path f
Accessing(f) ==
    {w \in Started : wjob[w].audio_file = f /\ wpc[w] \in {"transcribe", "translate", "remove"}}

\* C21: an audio path is never used by two stages at once: no capture
\* process writes a path that a worker is reading or deleting, and two
\* distinct chunks held by the pipeline never have the same path.
C21_AudioPathExclusive ==
    /\ mainpc = "capture" => Accessing(audio_file) = {}
    /\ \A w \in Workers : wjob[w] # NoJob => Cardinality(ChunksAt(wjob[w].audio_file)) = 1
    /\ \A i \in 1..Len(audio_queue) :
          audio_queue[i] # Sentinel => Cardinality(ChunksAt(audio_queue[i].audio_file)) = 1

\* C22: in the front end a stop request is honoured mid-capture: while
\* stop_recording waits for the recorder thread, no capture process of that
\* thread is running unterminated, so the wait does not last until the
\* capture ends on its own.
C22_GuiStopTerminatesCapture ==
    g_pc = "stop_wait" => g_recorder # "capturing"

\* C23: a failed removal of the temporary audio file is not escalated: in the
\* step in which a worker's os.remove fails (keep_audio false, the file is
\* there and stays), no failure is reported for the chunk, both of its
\* entries stay in the master files, and the worker goes on to task_done and
\* the next get.
C23_RemovalFailureNotEscalated ==
    [][\A w \in Workers :
          (/\ wpc[w] = "remove" /\ wpc'[w] # "remove"
           /\ ~keep_audio
           /\ wjob[w].audio_file \in audio_files \cap audio_files')
          => /\ wpc'[w] = "task_done"
             /\ failures' = failures
             /\ HasEntry(master_original_file', wjob[w].chunk_num)
             /\ HasEntry(master_translation_file', wjob[w].chunk_num)
             /\ master_original_file' = master_original_file
             /\ master_translation_file' = master_translation_file]_vars

\* C23 witness: the removal of chunk 1's file failed (the file is still there
\* with keep_audio false) and the same worker now holds chunk 2
C23_Witness ==
    /\ ~keep_audio
    /\ num_workers = 1
    /\ 1 \in audio_files /\ 1 \notin capture_failed
    /\ HasEntry(master_translation_file, 1)
    /\ wjob[1].chunk_num = 2
    /\ failures = {}

\* the workers that have taken an item off the queue and have not yet called
\* task_done for it
Holding ==
    {w \in Started : wpc[w] \in {"transcribe", "original_body", "translate",
                                 "translation_body", "remove", "task_done", "break"}}

\* C24: every get is matched by exactly one task_done, on the success path,
\* after an engine failure and after a sentinel: the unfinished-task count
\* is never negative, it is the number of items queued or held by a worker,
\* and the drain wait of main is over exactly when every job put has
\* finished, never earlier.
C24_TaskDoneAccounting ==
    /\ unfinished_tasks >= 0
    /\ unfinished_tasks = Len(audio_queue) + Cardinality(Holding)
    /\ mainpc = "join" => (unfinished_tasks = 0 <=> AllJobsCompleted)
    /\ mainpc = "sentinels" => AllJobsCompleted

\* C24 witness: the drain wait has returned after two jobs, one of which
\* failed in the engine
C24_Witness ==
    /\ mainpc = "sentinels"
    /\ Len(enqueued) = 2
    /\ failures # {}
    /\ Len(ChunkHeads(master_translation_file)) = 1

\* the recorder threads that are running: the one self.recorder_thread names
\* and the ones it no longer names
RunningRecorders == (IF g_recorder \in RecorderRunning THEN 1 ELSE 0) + Len(g_orphans)

\* C25: in the front end, whatever the clicks and completion signals, at most
\* one capture thread and at most one transcription thread run at a time.
C25_GuiOneCaptureOneTranscription ==
    /\ RunningRecorders <= 1
    /\ Len(g_transcribers) <= 1

\* the chunks that have an entry in the file f
Chunks(f) == Range(ChunkHeads(f))

\* C26: at every moment the chunks with an entry in a translation master
\* file are among the chunks with an entry in the original master file of
\* the same session name: the translation entry of a chunk is appended only
\* after its original entry.
C26_GuiTranslationWithinOriginal ==
    \A n \in Names : Chunks(g_files[n].translation) \subseteq Chunks(g_files[n].original)

\* the same statement for the master files of the command line program
CliTranslationWithinOriginal ==
    Chunks(master_translation_file) \subseteq Chunks(master_original_file)

====
